---- MODULE Spec2Model ----
(***************************************************************************)
(* Model of upload_s3_files_to_bucket.py: the uploader thread running      *)
(* upload_directory_to_s3 and the AsyncLogHandler worker thread that       *)
(* drains log_queue into the two log files.                                *)
(*                                                                         *)
(* Text is modelled as a sequence of tokens (strings); the separator       *)
(* " - " is one token, so that joining and splitting are real operations.  *)
(***************************************************************************)
EXTENDS Integers, Sequences, FiniteSets, TLC

\* ------------------------------------------------------------------ bounds
MaxDirs == 2        \* directories yielded by one os.walk
MaxFiles == 2       \* files listed in one directory
MaxRuns == 2        \* calls of upload_directory_to_s3 in one process
MaxTotalFiles == 2  \* files walked by all calls of one process together
MaxTime == 0        \* readings of the wall clock: 0..MaxTime
MaxNameLen == 3     \* characters of a file name in the format round trip

\* ------------------------------------------------------------ basic values
\* queue.put(None): the value that ends AsyncLogHandler.run
None == [none |-> TRUE]

\* the separator of AsyncLogHandler.format and of the console formatter
SEP == " - "

\* the bucket_name argument of upload_directory_to_s3
bucket_name == <<"bkt">>

\* str(e) of an exception caught by `except Exception as e`
ExcText == <<"boom">>

\* the name of the k-th entry of a directory listing
FileName(k) == <<"f" \o ToString(k)>>

\* the `files` list os.walk yields for a directory with n entries
Listing(n) == [k \in 1..n |-> FileName(k)]

Listings == {Listing(n) : n \in 0..MaxFiles}

\* os.walk(local_directory): one `files` list per directory visited, in
\* visiting order; a root that does not exist yields nothing at all
Walks == UNION {[1..n -> Listings] : n \in 0..MaxDirs}

RECURSIVE NumFiles(_)
NumFiles(w) == IF w = <<>> THEN 0 ELSE Len(Head(w)) + NumFiles(Tail(w))

\* the outcomes of one upload attempt (which except clause, if any, ran)
Outcomes == {"Success", "NotFound", "CredentialsMissing", "OtherFailure"}

VARIABLES
  pc,               \* uploader thread: "idle", "loop", "put", "log", "exited"
  runs,             \* calls of upload_directory_to_s3 started so far
  walk,             \* what os.walk yields in the current call
  d, f,             \* indices of the outer and the inner for loop
  handle,           \* source files open on the uploader thread
  outcome,          \* how the current try block ended ("none" while inside)
  bucket,           \* the S3 bucket: key -> content last put under it
  console,          \* lines on the console
  log_queue,        \* queue.Queue: records and None, oldest first
  unfinished_tasks, \* queue.Queue's count of items put and not task_done
  worker,           \* worker thread: "get", "write", "exited", "crashed", "killed"
  record,           \* the worker's local variable `record`
  info_log,         \* lines of INFO_LOG_FILE
  error_log,        \* lines of ERROR_LOG_FILE
  now,              \* the wall clock
  submitted,        \* history: every record put on log_queue, in order
  sentinels,        \* history: number of None put on log_queue
  attempted,        \* history: <<d, f>> of every file opened in this call
  outcomes,         \* history: the outcomes of this call, in order
  walked,           \* history: files walked by the calls started so far
  run_base,         \* history: Len(submitted) when the current call began
  rt_pc,            \* format round trip: "off", "made", "written", "parsed"
  rt_record,        \* format round trip: the entry log_async built
  rt_line,          \* format round trip: the characters of the written line
  rt_fields,        \* format round trip: the line split on " - "
  edf_pc,           \* process_edf: "off", "start", "loop", "write", "done", "error"
  edf_in,           \* the channels of input_file: label, sample_rate, signal
  heap,             \* the header dicts process_edf holds, by object identity
  signal_headers,   \* process_edf: list of references to header dicts
  signals,          \* process_edf: list of signals read
  new_signals,      \* process_edf: list of signals to write
  new_headers,      \* process_edf: list of references to header dicts
  edf_i,            \* process_edf: index of the running for loop
  edf_out,          \* the channels written to output_file so far
  edf_stdout        \* lines printed by process_edf

uploaderVars == <<pc, runs, walk, d, f, handle, outcome, attempted, outcomes, walked, run_base>>
queueVars == <<log_queue, unfinished_tasks, submitted, sentinels>>
workerVars == <<worker, record, info_log, error_log>>
worldVars == <<bucket, console, now>>
mainVars == <<uploaderVars, queueVars, workerVars, worldVars>>
fmtVars == <<rt_pc, rt_record, rt_line, rt_fields>>
edfVars == <<edf_pc, edf_in, heap, signal_headers, signals, new_signals,
             new_headers, edf_i, edf_out, edf_stdout>>
sideVars == <<fmtVars, edfVars>>
vars == <<mainVars, sideVars>>

\* ------------------------------------------------------------ the log path
\* datetime.datetime.now() rendered by strftime: one token per reading
asctime(t) == <<"T" \o ToString(t)>>

\* the clock never runs backwards; two readings may be equal
ClockReadings == {t \in {now, now + 1} : t <= MaxTime}

\* log_async builds the dict it puts on the queue
LogEntry(t, level, msg) == [asctime |-> asctime(t), levelname |-> level, message |-> msg]

\* log_queue.put(item)
QueuePut(q, item) == Append(q, item)

\* mutant of format: the fields are joined by "-" without the spaces
format_bare_dash(r) == r.asctime \o <<"-">> \o <<r.levelname>> \o <<"-">> \o r.message

\* AsyncLogHandler.format
format(r) == r.asctime \o <<SEP>> \o <<r.levelname>> \o <<SEP>> \o r.message

\* mutant of write_log_file: the level is compared in the wrong case
write_log_file_wrong_case(r) == IF r.levelname = "error" THEN "error" ELSE "info"

\* AsyncLogHandler.write_log: which file the record goes to
write_log_file(r) == IF r.levelname = "ERROR" THEN "error" ELSE "info"

\* logging.Formatter("%(asctime)s - %(levelname)s - %(message)s") of console_handler
ConsoleFormat(t, level, msg) == asctime(t) \o <<SEP>> \o <<level>> \o <<SEP>> \o msg

\* the messages of upload_directory_to_s3
MsgUploaded(file) == <<"File ">> \o file \o <<" uploaded to ">> \o bucket_name
MsgNotFound(file) == <<"The file ">> \o file \o <<" was not found">>
MsgCredentials == <<"Credentials not available">>
MsgOther(file) == <<"Error uploading file ">> \o file \o <<": ">> \o ExcText

\* ------------------------------------------------------------ the for loops
\* the position the two nested for loops stand at: directories without
\* (remaining) files are stepped over; d = Len(w) + 1 when os.walk is exhausted
RECURSIVE LoopPos(_, _, _)
LoopPos(w, i, j) ==
  IF i > Len(w) THEN <<Len(w) + 1, 1>>
  ELSE IF j > Len(w[i]) THEN LoopPos(w, i + 1, 1)
  ELSE <<i, j>>

\* after the body ran for file j of directory i without break
AfterFile(w, i, j) == LoopPos(w, i, j + 1)

\* after `break`: the inner loop is left, the outer loop goes on
AfterBreak(w, i, j) == LoopPos(w, i + 1, 1)

\* mutant of Breaks: every except clause ends with `break`
BreaksOnAnyError(o) == o # "Success"

\* which except clause ends with `break`
Breaks(o) == o = "CredentialsMissing"

AtEnd == d > Len(walk)
CurFile == walk[d][f]

\* the uploader module right after import: the worker thread waits on the
\* empty queue
MainInit ==
  /\ pc = "idle" /\ runs = 0 /\ walk = <<>> /\ d = 1 /\ f = 1
  /\ handle = {} /\ outcome = "none"
  /\ bucket = <<>> /\ console = <<>>
  /\ log_queue = <<>> /\ unfinished_tasks = 0
  /\ worker = "get" /\ record = None
  /\ info_log = <<>> /\ error_log = <<>>
  /\ now = 0
  /\ submitted = <<>> /\ sentinels = 0
  /\ attempted = <<>> /\ outcomes = <<>> /\ walked = 0 /\ run_base = 0

\* no format round trip is under way
FmtOff == rt_pc = "off" /\ rt_record = None /\ rt_line = <<>> /\ rt_fields = <<>>

EdfOff ==
  /\ edf_pc = "off" /\ edf_in = <<>> /\ heap = <<>>
  /\ signal_headers = <<>> /\ signals = <<>>
  /\ new_signals = <<>> /\ new_headers = <<>>
  /\ edf_i = 0 /\ edf_out = <<>> /\ edf_stdout = <<>>

Init == MainInit /\ FmtOff /\ EdfOff

\* ------------------------------------------------------ the uploader thread
\* mutant of log_async: the entry is also written to its file by the caller
log_async_writes_file(t, level, msg) ==
  /\ now' = t
  /\ log_queue' = QueuePut(log_queue, LogEntry(t, level, msg))
  /\ unfinished_tasks' = unfinished_tasks + 1
  /\ submitted' = Append(submitted, LogEntry(t, level, msg))
  /\ info_log' = IF write_log_file(LogEntry(t, level, msg)) = "info"
                 THEN Append(info_log, format(LogEntry(t, level, msg))) ELSE info_log
  /\ error_log' = IF write_log_file(LogEntry(t, level, msg)) = "error"
                  THEN Append(error_log, format(LogEntry(t, level, msg))) ELSE error_log
  /\ UNCHANGED sentinels

\* log_async(level, msg): stamp the entry and put it on log_queue; no file
\* is opened or written here
log_async(t, level, msg) ==
  /\ now' = t
  /\ log_queue' = QueuePut(log_queue, LogEntry(t, level, msg))
  /\ unfinished_tasks' = unfinished_tasks + 1
  /\ submitted' = Append(submitted, LogEntry(t, level, msg))
  /\ UNCHANGED <<sentinels, info_log, error_log>>

\* the loop goes on after an outcome: `break` or the next file
NextPos(o) == IF Breaks(o) THEN AfterBreak(walk, d, f) ELSE AfterFile(walk, d, f)

EndIteration(o) ==
  /\ outcomes' = Append(outcomes, o)
  /\ d' = NextPos(o)[1]
  /\ f' = NextPos(o)[2]
  /\ outcome' = "none"
  /\ pc' = "loop"
  /\ UNCHANGED <<runs, walk, handle, attempted, walked, run_base>>

\* a call of upload_directory_to_s3(local_directory, bucket_name) begins:
\* boto3.client("s3"), then os.walk starts
StartRun(w) ==
  /\ UNCHANGED sideVars
  /\ pc = "idle"
  /\ runs < MaxRuns
  /\ walked + NumFiles(w) <= MaxTotalFiles
  /\ runs' = runs + 1
  /\ walk' = w
  /\ d' = LoopPos(w, 1, 1)[1]
  /\ f' = LoopPos(w, 1, 1)[2]
  /\ attempted' = <<>>
  /\ outcomes' = <<>>
  /\ walked' = walked + NumFiles(w)
  /\ run_base' = Len(submitted)
  /\ outcome' = "none"
  /\ pc' = "loop"
  /\ UNCHANGED <<handle, queueVars, workerVars, worldVars>>

\* open(full_path, "rb"): the file may have vanished, or open may fail otherwise
OpenFile ==
  /\ UNCHANGED sideVars
  /\ pc = "loop"
  /\ ~AtEnd
  /\ attempted' = Append(attempted, <<d, f>>)
  /\ \E r \in {"ok", "NotFound", "OtherFailure"} :
       IF r = "ok"
       THEN /\ handle' = handle \cup {<<d, f>>}
            /\ pc' = "put"
            /\ UNCHANGED outcome
       ELSE /\ outcome' = r
            /\ pc' = "log"
            /\ UNCHANGED handle
  /\ UNCHANGED <<runs, walk, d, f, outcomes, walked, run_base, queueVars, workerVars, worldVars>>

\* the bucket after put of `content` under `key`
PutObject(b, key, content) ==
  [k \in DOMAIN b \cup {key} |-> IF k = key THEN content ELSE b[k]]

\* mutant of DestinationKey: the key keeps the subdirectory
DestinationKeyWithDir(dir, file) == <<"d" \o ToString(dir)>> \o file

\* the Key argument of s3.upload_fileobj(data, bucket_name, file): the name
\* of the file alone, not os.path.join(subdir, file)
DestinationKey(dir, file) == file

\* mutant of UploadFileobj: the file is closed only after a successful
\* upload (data.close() after the call, with no `with` block)
UploadFileobjCloseOnSuccess ==
  /\ UNCHANGED sideVars
  /\ pc = "put"
  /\ \E r \in {"Success", "CredentialsMissing", "OtherFailure"} :
       /\ outcome' = r
       /\ bucket' = IF r = "Success"
                    THEN PutObject(bucket, DestinationKey(d, CurFile), <<d, f>>)
                    ELSE bucket
       /\ handle' = IF r = "Success" THEN handle \ {<<d, f>>} ELSE handle
  /\ pc' = "log"
  /\ UNCHANGED <<runs, walk, d, f, attempted, outcomes, walked, run_base>>
  /\ UNCHANGED <<queueVars, workerVars, console, now>>

\* s3.upload_fileobj(data, bucket_name, file), then the with block is left
\* and the file closed, whether upload_fileobj returned or raised
UploadFileobj ==
  /\ UNCHANGED sideVars
  /\ pc = "put"
  /\ \E r \in {"Success", "CredentialsMissing", "OtherFailure"} :
       /\ outcome' = r
       /\ bucket' = IF r = "Success"
                    THEN PutObject(bucket, DestinationKey(d, CurFile), <<d, f>>)
                    ELSE bucket
  /\ handle' = handle \ {<<d, f>>}
  /\ pc' = "log"
  /\ UNCHANGED <<runs, walk, d, f, attempted, outcomes, walked, run_base>>
  /\ UNCHANGED <<queueVars, workerVars, console, now>>

\* the try block ends normally: log_async("INFO", ...) and print(...)
LogSuccess ==
  /\ UNCHANGED sideVars
  /\ pc = "log"
  /\ outcome = "Success"
  /\ \E t \in ClockReadings : log_async(t, "INFO", MsgUploaded(CurFile))
  /\ console' = Append(console, MsgUploaded(CurFile))
  /\ EndIteration("Success")
  /\ UNCHANGED <<worker, record, bucket>>

\* except FileNotFoundError
LogNotFound ==
  /\ UNCHANGED sideVars
  /\ pc = "log"
  /\ outcome = "NotFound"
  /\ \E t \in ClockReadings : log_async(t, "ERROR", MsgNotFound(CurFile))
  /\ EndIteration("NotFound")
  /\ UNCHANGED <<worker, record, bucket, console>>

\* except NoCredentialsError: log_async and break
LogCredentials ==
  /\ UNCHANGED sideVars
  /\ pc = "log"
  /\ outcome = "CredentialsMissing"
  /\ \E t \in ClockReadings : log_async(t, "ERROR", MsgCredentials)
  /\ EndIteration("CredentialsMissing")
  /\ UNCHANGED <<worker, record, bucket, console>>

\* except Exception as e: logger.error(...), which reaches console_handler only
LogOther ==
  /\ UNCHANGED sideVars
  /\ pc = "log"
  /\ outcome = "OtherFailure"
  /\ \E t \in ClockReadings :
       /\ now' = t
       /\ console' = Append(console, ConsoleFormat(t, "ERROR", MsgOther(CurFile)))
  /\ EndIteration("OtherFailure")
  /\ UNCHANGED <<queueVars, workerVars, bucket>>

\* mutant of PushSentinel: put(None) is skipped when nothing was attempted
PushSentinelIfAttempted ==
  /\ UNCHANGED sideVars
  /\ pc = "loop"
  /\ AtEnd
  /\ log_queue' = IF attempted = <<>> THEN log_queue ELSE QueuePut(log_queue, None)
  /\ unfinished_tasks' = IF attempted = <<>> THEN unfinished_tasks ELSE unfinished_tasks + 1
  /\ sentinels' = IF attempted = <<>> THEN sentinels ELSE sentinels + 1
  /\ pc' = "idle"
  /\ UNCHANGED <<runs, walk, d, f, handle, outcome, attempted, outcomes, walked, run_base>>
  /\ UNCHANGED <<submitted, workerVars, worldVars>>

\* os.walk is exhausted: async_handler.log_queue.put(None), and the call returns
PushSentinel ==
  /\ UNCHANGED sideVars
  /\ pc = "loop"
  /\ AtEnd
  /\ log_queue' = QueuePut(log_queue, None)
  /\ unfinished_tasks' = unfinished_tasks + 1
  /\ sentinels' = sentinels + 1
  /\ pc' = "idle"
  /\ UNCHANGED <<runs, walk, d, f, handle, outcome, attempted, outcomes, walked, run_base>>
  /\ UNCHANGED <<submitted, workerVars, worldVars>>

\* the main thread ends after the module-level call(s): the interpreter exits
\* and the worker, a daemon thread (self.daemon = True), is stopped where it is
ProcessExit ==
  /\ UNCHANGED sideVars
  /\ pc = "idle"
  /\ runs >= 1
  /\ pc' = "exited"
  /\ worker' = IF worker \in {"get", "write"} THEN "killed" ELSE worker
  /\ UNCHANGED <<runs, walk, d, f, handle, outcome, attempted, outcomes, walked, run_base>>
  /\ UNCHANGED <<queueVars, record, info_log, error_log, worldVars>>

\* -------------------------------------------------------- the worker thread
\* the queue without its item at position i
QueueWithout(q, i) == SubSeq(q, 1, i - 1) \o SubSeq(q, i + 1, Len(q))

\* mutant of QueueGetIndex: the newest item is taken (a LIFO queue)
QueueGetNewest(q) == Len(q)

\* the position log_queue.get() takes its item from: queue.Queue is FIFO
QueueGetIndex(q) == 1

\* record = self.log_queue.get(), a record: go on to write_log
WorkerGet ==
  /\ UNCHANGED sideVars
  /\ worker = "get"
  /\ log_queue # <<>>
  /\ log_queue[QueueGetIndex(log_queue)] # None
  /\ record' = log_queue[QueueGetIndex(log_queue)]
  /\ log_queue' = QueueWithout(log_queue, QueueGetIndex(log_queue))
  /\ worker' = "write"
  /\ UNCHANGED <<uploaderVars, unfinished_tasks, submitted, sentinels>>
  /\ UNCHANGED <<info_log, error_log, worldVars>>

\* mutant of WorkerStop: None is skipped (`continue`) and the loop goes on
WorkerSkipsSentinel ==
  /\ UNCHANGED sideVars
  /\ worker = "get"
  /\ log_queue # <<>>
  /\ log_queue[QueueGetIndex(log_queue)] = None
  /\ record' = None
  /\ log_queue' = QueueWithout(log_queue, QueueGetIndex(log_queue))
  /\ worker' = "get"
  /\ UNCHANGED <<uploaderVars, unfinished_tasks, submitted, sentinels>>
  /\ UNCHANGED <<info_log, error_log, worldVars>>

\* record = self.log_queue.get(), None: break, run returns
WorkerStop ==
  /\ UNCHANGED sideVars
  /\ worker = "get"
  /\ log_queue # <<>>
  /\ log_queue[QueueGetIndex(log_queue)] = None
  /\ record' = None
  /\ log_queue' = QueueWithout(log_queue, QueueGetIndex(log_queue))
  /\ worker' = "exited"
  /\ UNCHANGED <<uploaderVars, unfinished_tasks, submitted, sentinels>>
  /\ UNCHANGED <<info_log, error_log, worldVars>>

\* self.write_log(record); self.log_queue.task_done().  open or write may
\* raise (disk full, permissions): nothing in run or write_log catches it,
\* so the exception ends the thread
WorkerWrite ==
  /\ UNCHANGED sideVars
  /\ worker = "write"
  /\ \E ok \in BOOLEAN :
       IF ok
       THEN /\ info_log' = IF write_log_file(record) = "info"
                           THEN Append(info_log, format(record)) ELSE info_log
            /\ error_log' = IF write_log_file(record) = "error"
                            THEN Append(error_log, format(record)) ELSE error_log
            /\ unfinished_tasks' = unfinished_tasks - 1
            /\ worker' = "get"
       ELSE /\ worker' = "crashed"
            /\ UNCHANGED <<info_log, error_log, unfinished_tasks>>
  /\ UNCHANGED <<uploaderVars, log_queue, submitted, sentinels, record, worldVars>>

\* the process calls upload_directory_to_s3 on some root
Call == pc = "idle" /\ \E w \in Walks : StartRun(w)

\* the steps of a call in progress
Uploader ==
  \/ OpenFile
  \/ UploadFileobj
  \/ LogSuccess
  \/ LogNotFound
  \/ LogCredentials
  \/ LogOther
  \/ PushSentinel

Worker ==
  \/ WorkerGet
  \/ WorkerStop
  \/ WorkerWrite

Next ==
  \/ Call
  \/ Uploader
  \/ Worker
  \/ ProcessExit

Spec == Init /\ [][Next]_vars

\* both threads are scheduled fairly; nothing obliges the process to make
\* another call or to exit
FairSpec == Spec /\ WF_vars(Uploader) /\ WF_vars(Worker)

\* ------------------------------------------------------------------ claims
\* the call has returned (or the process has ended after it)
Returned == pc \in {"idle", "exited"} /\ runs >= 1

\* the lines the worker has appended to the two files so far
Written == Len(info_log) + Len(error_log)

\* the positions of the walk's files, in enumeration order
RECURSIVE FlatFrom(_, _, _)
FlatFrom(w, i, j) ==
  LET p == LoopPos(w, i, j)
  IN IF p[1] > Len(w) THEN <<>> ELSE <<p>> \o FlatFrom(w, p[1], p[2] + 1)

FlatWalk == FlatFrom(walk, 1, 1)

\* the rank of position p in the enumeration flat
WalkIndex(flat, p) == CHOOSE k \in 1..Len(flat) : flat[k] = p

\* C1: when the upload at walk position i ends in CredentialsMissing, exactly
\* i uploads (counting from one) are attempted in the call: nothing after the
\* halting file is opened, in the same or in any later directory.
C1_CredentialsHaltsWalk ==
  \A i \in 1..Len(outcomes) :
    outcomes[i] = "CredentialsMissing" => Len(attempted) = i

\* C2: once upload_directory_to_s3 has returned, the queue is empty, the
\* worker has exited and every submitted record is in a sink.
C2_ShutdownBlocks ==
  Returned => /\ log_queue = <<>>
              /\ worker = "exited"
              /\ Written = Len(submitted)

\* C3: every outcome puts exactly one record on log_queue before the loop
\* goes on, INFO for Success and ERROR for each of the three failures.
C3_OneRecordPerOutcome ==
  [][outcomes' # outcomes /\ runs' = runs =>
       /\ Len(submitted') = Len(submitted) + 1
       /\ submitted'[Len(submitted')].levelname =
            (IF outcome = "Success" THEN "INFO" ELSE "ERROR")]_vars

\* the lines of a sequence of records
FormatAll(rs) == [i \in 1..Len(rs) |-> format(rs[i])]

IsError(r) == r.levelname = "ERROR"
IsNotError(r) == r.levelname # "ERROR"

\* C4: under every interleaving of the uploader and the worker each sink
\* holds, in submission order, the lines of the records of its severity
\* among the first k submitted, k being the number of lines written.
C4_FifoDelivery ==
  /\ Written <= Len(submitted)
  /\ LET first == SubSeq(submitted, 1, Written)
     IN /\ info_log = FormatAll(SelectSeq(first, IsNotError))
        /\ error_log = FormatAll(SelectSeq(first, IsError))

\* C4 witness: the worker has written the first of two submitted records
\* while the second, of the other severity, waits in the queue and the
\* uploader is still inside the call
C4_Witness ==
  /\ Len(submitted) = 2
  /\ IsError(submitted[1])
  /\ IsNotError(submitted[2])
  /\ error_log = <<format(submitted[1])>>
  /\ log_queue = <<submitted[2]>>
  /\ pc = "loop"

\* C5: a failure while writing a record is caught inside the router: the
\* worker stays alive and goes on with the next record.
C5_WriteFailureCaught == worker # "crashed"

\* C6: every record put on log_queue is eventually written, exactly once.
\* A worker that has exited or been stopped never writes again, so the
\* claim requires that it owes nothing when it stops: every record submitted
\* so far is then in a sink.  Stated for a process that makes one call, and
\* for a worker that no write failure has ended.
C6_NothingOwedWhenStopped ==
  (runs = 1 /\ worker \in {"exited", "killed"}) => Written = Len(submitted)

\* the severity field of a written line: <timestamp> - <SEVERITY> - <message>
LineLevel(line) == line[3]

IsRecord(item) == item # None

\* the records the worker has yet to write: queued, or taken and in write_log
Pending == Len(SelectSeq(log_queue, IsRecord)) + (IF worker = "write" THEN 1 ELSE 0)

\* C7: a record whose levelname is ERROR is appended to the error file and
\* only there; any other record is appended to the info file and only there
\* (so no record accounts for more than one written line).
C7_RoutingRule ==
  /\ \A i \in 1..Len(error_log) : LineLevel(error_log[i]) = "ERROR"
  /\ \A i \in 1..Len(info_log) : LineLevel(info_log[i]) # "ERROR"
  /\ Written + Pending <= Len(submitted)

\* C7 witness: one record of each severity has been written
C7_Witness ==
  /\ Len(error_log) = 1
  /\ Len(info_log) = 1
  /\ LineLevel(info_log[1]) = "INFO"

\* C8: after a file that ends in NotFound or OtherFailure the loop attempts
\* the very next file of the walk's enumeration, the call does not return
\* before the walk's last file, and it returns by pushing the sentinel.
C8_FailuresDoNotHalt ==
  /\ LET flat == FlatWalk
     IN \A i \in 1..Len(outcomes) :
          outcomes[i] \in {"NotFound", "OtherFailure"} =>
            /\ i < Len(attempted) =>
                 /\ WalkIndex(flat, attempted[i]) < Len(flat)
                 /\ attempted[i + 1] = flat[WalkIndex(flat, attempted[i]) + 1]
            /\ (Returned /\ i = Len(attempted)) =>
                 WalkIndex(flat, attempted[i]) = Len(flat)
  /\ Cardinality(handle) <= 1
  /\ Returned => sentinels = runs

\* C8 witness: a call over two files of one directory has returned after a
\* NotFound followed by an OtherFailure
C8_Witness ==
  /\ Returned
  /\ Len(walk) = 1
  /\ outcomes = <<"NotFound", "OtherFailure">>
  /\ attempted = <<<<1, 1>>, <<1, 2>>>>

\* C9: for an empty or non-existent root the call attempts no upload, puts
\* no record on log_queue, and still pushes the sentinel; if no call has
\* walked a file, the worker's only step is to take the sentinel and exit,
\* and both sinks stay empty.
C9_EmptyRoot ==
  (runs >= 1 /\ NumFiles(walk) = 0) =>
    /\ attempted = <<>>
    /\ outcomes = <<>>
    /\ Len(submitted) = run_base
    /\ pc \in {"loop", "idle", "exited"}
    /\ Returned => sentinels = runs
    /\ walked = 0 =>
         /\ submitted = <<>> /\ info_log = <<>> /\ error_log = <<>>
         /\ worker \in {"get", "exited", "killed"}
         /\ (Returned /\ worker = "get") =>
              (log_queue # <<>> /\ log_queue[QueueGetIndex(log_queue)] = None)

\* C9 witness: the worker has exited on the sentinel of a call over a root
\* with directories but no files
C9_Witness ==
  /\ runs = 1
  /\ walk # <<>>
  /\ NumFiles(walk) = 0
  /\ Returned
  /\ worker = "exited"

\* C10: the sentinel is pushed only after the last record of the call has
\* been enqueued, and no record is put on log_queue once a sentinel has been
\* pushed.
C10_NoRecordAfterSentinel ==
  [][/\ sentinels' # sentinels => (pc = "loop" /\ AtEnd /\ submitted' = submitted)
     /\ sentinels >= 1 => submitted' = submitted]_vars

\* the records put on log_queue since the current call began
RunRecords == SubSeq(submitted, run_base + 1, Len(submitted))

IsHaltRecord(r) == r.message = MsgCredentials

\* C11: a call that hits CredentialsMissing enqueues exactly one record for
\* the halt, and that record stays the last one enqueued by the call.
C11_SingleTerminalHaltRecord ==
  LET run == RunRecords
  IN (\E i \in 1..Len(run) : IsHaltRecord(run[i])) =>
       /\ IsHaltRecord(run[Len(run)])
       /\ Len(SelectSeq(run, IsHaltRecord)) = 1

C14_OnlyWorkerWritesSinks ==
  [][(info_log' # info_log \/ error_log' # error_log) =>
       /\ worker = "write"
       /\ worker' = "get"
       /\ Written' = Written + 1
       /\ UNCHANGED <<uploaderVars, log_queue, submitted, sentinels>>]_vars

\* C14 witness: a record has been written while the uploader, having
\* enqueued it, is about to enqueue the next one
C14_Witness ==
  /\ Written = 1
  /\ Len(submitted) = 1
  /\ pc = "log"
  /\ outcome \in {"Success", "NotFound", "CredentialsMissing"}

\* C15: source file handles are released on every exit path of an attempt:
\* at most one file is open at a time, it is the file being uploaded, and no
\* file is open when the loop starts a file, logs an outcome, pushes the
\* sentinel or has returned.
C15_HandleReleased ==
  /\ Cardinality(handle) <= 1
  /\ pc = "put" => handle = {<<d, f>>}
  /\ pc \in {"loop", "log", "idle", "exited"} => handle = {}

\* C15 witness: upload_fileobj raised NoCredentialsError on an open file and
\* the except clause is about to log with no file open
C15_Witness ==
  /\ pc = "log"
  /\ outcome = "CredentialsMissing"
  /\ handle = {}
  /\ Len(attempted) = 2

\* the index of the last successful attempt of this call on a file named name
LastSuccess(name) ==
  CHOOSE i \in 1..Len(outcomes) :
    /\ outcomes[i] = "Success" /\ walk[attempted[i][1]][attempted[i][2]] = name
    /\ \A j \in (i + 1)..Len(outcomes) :
         ~(outcomes[j] = "Success" /\ walk[attempted[j][1]][attempted[j][2]] = name)

\* C16: every upload goes under the file's name alone, so files of the same
\* name in different directories share a key, and the bucket holds under it
\* the content of the one uploaded last in walk order; the collision adds no
\* record.
C16_BasenameKeyLastWins ==
  pc \in {"loop", "idle", "exited"} =>
    /\ \A i \in 1..Len(outcomes) :
         outcomes[i] = "Success" =>
           LET name == walk[attempted[i][1]][attempted[i][2]]
           IN /\ name \in DOMAIN bucket
              /\ bucket[name] = attempted[LastSuccess(name)]
    /\ DOMAIN bucket \subseteq {FileName(k) : k \in 1..MaxFiles}
    /\ Len(RunRecords) = Len(SelectSeq(outcomes, LAMBDA o : o # "OtherFailure"))

\* C16 witness: two files of the same name in two directories were both
\* uploaded, and the key holds the second
C16_Witness ==
  /\ Returned
  /\ walk = <<Listing(1), Listing(1)>>
  /\ outcomes = <<"Success", "Success">>
  /\ bucket[FileName(1)] = <<2, 1>>

StampChars(t) ==
  <<"2", "0", "2", "6", "-", "1", "1", "-", "0", "2", " ",
    "1", "7", ":", "0", "0", ":", "0", "0", ",", "0", "0", ToString(t)>>

Spell(tok) ==
  CASE tok = SEP -> <<" ", "-", " ">>
    [] tok = "INFO" -> <<"I", "N", "F", "O">>
    [] tok = "ERROR" -> <<"E", "R", "R", "O", "R">>
    [] tok = "File " -> <<"F", "i", "l", "e", " ">>
    [] tok = " uploaded to " ->
         <<" ", "u", "p", "l", "o", "a", "d", "e", "d", " ", "t", "o", " ">>
    [] tok = "bkt" -> <<"b", "k", "t">>
    [] tok = "The file " -> <<"T", "h", "e", " ", "f", "i", "l", "e", " ">>
    [] tok = " was not found" ->
         <<" ", "w", "a", "s", " ", "n", "o", "t", " ", "f", "o", "u", "n", "d">>
    [] tok = "Error uploading file " ->
         <<"E", "r", "r", "o", "r", " ", "u", "p", "l", "o", "a", "d", "i", "n", "g",
           " ", "f", "i", "l", "e", " ">>
    [] tok = ": " -> <<":", " ">>
    [] tok = "Credentials not available" ->
         <<"C", "r", "e", "d", "e", "n", "t", "i", "a", "l", "s", " ", "n", "o", "t",
           " ", "a", "v", "a", "i", "l", "a", "b", "l", "e">>
    [] \E t \in 0..(MaxTime + 1) : tok = asctime(t)[1] ->
         StampChars(CHOOSE t \in 0..(MaxTime + 1) : tok = asctime(t)[1])
    [] OTHER -> <<tok>>

RECURSIVE Chars(_)
Chars(text) == IF text = <<>> THEN <<>> ELSE Spell(Head(text)) \o Chars(Tail(text))

\* the first position at which sep occurs in s (0 if it does not)
FirstAt(s, sep) ==
  LET hits == {k \in 1..(Len(s) - Len(sep) + 1) : SubSeq(s, k, k + Len(sep) - 1) = sep}
  IN IF hits = {} THEN 0 ELSE CHOOSE k \in hits : \A h \in hits : k <= h

\* str.split(sep): cut at every occurrence of sep, leftmost first
RECURSIVE Split(_, _)
Split(s, sep) ==
  IF FirstAt(s, sep) = 0 THEN <<s>>
  ELSE <<SubSeq(s, 1, FirstAt(s, sep) - 1)>>
         \o Split(SubSeq(s, FirstAt(s, sep) + Len(sep), Len(s)), sep)

\* sep.join(fields)
RECURSIVE Join(_, _)
Join(fields, sep) ==
  IF fields = <<>> THEN <<>>
  ELSE IF Len(fields) = 1 THEN fields[1]
  ELSE fields[1] \o sep \o Join(Tail(fields), sep)

\* file names: characters among blank, dash and a letter
NameChars == {" ", "-", "a"}
Names == UNION {[1..n -> NameChars] : n \in 1..MaxNameLen}

\* the entries log_async is called with by upload_directory_to_s3
UploaderEntries ==
  {LogEntry(t, "INFO", MsgUploaded(name)) : t \in 0..MaxTime, name \in Names}
    \cup {LogEntry(t, "ERROR", MsgNotFound(name)) : t \in 0..MaxTime, name \in Names}
    \cup {LogEntry(t, "ERROR", MsgCredentials) : t \in 0..MaxTime}
    \cup {LogEntry(t, "ERROR", MsgOther(name)) : t \in 0..MaxTime, name \in Names}

FmtInit == rt_pc = "made" /\ rt_record \in UploaderEntries /\ rt_line = <<>> /\ rt_fields = <<>>

\* write_log: f.write(self.format(record) + "\n")
RtWrite ==
  /\ rt_pc = "made"
  /\ rt_line' = Chars(format(rt_record))
  /\ rt_pc' = "written"
  /\ UNCHANGED <<rt_record, rt_fields, mainVars, edfVars>>

\* a reader of the log file: line.split(" - ")
RtSplit ==
  /\ rt_pc = "written"
  /\ rt_fields' = Split(rt_line, Spell(SEP))
  /\ rt_pc' = "parsed"
  /\ UNCHANGED <<rt_record, rt_line, mainVars, edfVars>>

FormatNext ==
  \/ RtWrite
  \/ RtSplit

\* AsyncLogHandler.format applied to every entry the uploader can produce
FormatInit == MainInit /\ FmtInit /\ EdfOff

FormatSpec == FormatInit /\ [][FormatNext]_vars

\* C13 as claimed: the line split on " - " yields exactly three fields,
\* the second and third being S and M.
C13_ExactlyThreeFields ==
  rt_pc = "parsed" =>
    /\ Len(rt_fields) = 3
    /\ rt_fields[2] = Spell(rt_record.levelname)
    /\ rt_fields[3] = Chars(rt_record.message)

\* C13 as amended: the first two fields are the timestamp and S, and the
\* remaining fields joined again by " - " are M; there are exactly three
\* fields if and only if M does not contain " - ".
C13_RoundTrip ==
  rt_pc = "parsed" =>
    /\ Len(rt_fields) >= 3
    /\ rt_fields[1] = Chars(rt_record.asctime)
    /\ rt_fields[2] = Spell(rt_record.levelname)
    /\ Join(SubSeq(rt_fields, 3, Len(rt_fields)), Spell(SEP)) = Chars(rt_record.message)
    /\ Len(rt_fields) = 3 <=> FirstAt(Chars(rt_record.message), Spell(SEP)) = 0

\* C13 witness: a line for a file whose name is " - " has been split, into
\* four fields
C13_Witness ==
  /\ rt_pc = "parsed"
  /\ rt_record.levelname = "ERROR"
  /\ rt_record.message = MsgNotFound(<<" ", "-", " ">>)
  /\ Len(rt_fields) = 4

\* ------------------------------------------------ emg_filter_and_save.py
MaxChannels == 2    \* signals in the input file
MaxPad == 1         \* characters around the core of a channel label

\* the defaults of apply_filter
lowcut == 10
highcut == 100
order == 4

\* str.upper() on the characters labels are made of
Upper(c) ==
  CASE c = "e" -> "E"
    [] c = "m" -> "M"
    [] c = "g" -> "G"
    [] OTHER -> c

upper(s) == [k \in 1..Len(s) |-> Upper(s[k])]

\* `sub in s`
Contains(s, sub) == FirstAt(s, sub) # 0

\* channel labels: a core with up to MaxPad characters before or after it
Cores == {<<"E", "M", "G">>, <<"e", "m", "g">>, <<"E", "E", "G">>}
Pad(n) == [k \in 1..n |-> "1"]
Labels ==
  {Pad(j) \o core \o Pad(k) : <<j, k, core>> \in
     {x \in (0..MaxPad) \X (0..MaxPad) \X Cores : x[1] + x[2] <= MaxPad}}

\* sampling rates of the channels (Hz)
Rates == {200, 256}

\* readSignal(i) of the channel at position k: distinct for distinct k
Samples(k) == <<k, 0 - k>>

\* the input files: up to MaxChannels channels
EdfFiles ==
  UNION {[1..n -> [label : Labels, sample_rate : Rates]] : n \in 0..MaxChannels}

\* butter_bandpass: the critical frequencies are fractions of the Nyquist
\* frequency 0.5 * fs, kept as <<numerator, denominator>>
butter_bandpass(lc, hc, fs, ord) ==
  [order |-> ord, low |-> <<2 * lc, fs>>, high |-> <<2 * hc, fs>>, btype |-> "band"]

\* scipy.signal.butter raises ValueError unless 0 < low < high < 1
ButterRaises(lc, hc, fs) == ~(0 < 2 * lc /\ 2 * lc < 2 * hc /\ 2 * hc < fs)

\* apply_filter(signal, fs): filtfilt of the signal with the coefficients
apply_filter(data, fs) ==
  [filtfilt |-> butter_bandpass(lowcut, highcut, fs, order), data |-> data]

\* mutant of HeaderCopy: new_header = signal_headers[i] (the same object)
HeaderAlias(h, ref) == [heap |-> h, ref |-> ref]

\* signal_headers[i].copy(): a new dict with the same items
HeaderCopy(h, ref) == [heap |-> Append(h, h[ref]), ref |-> Len(h) + 1]

\* 'Filtered_'
Filtered_ == <<"F", "i", "l", "t", "e", "r", "e", "d", "_">>

EdfInit ==
  /\ edf_pc = "start" /\ edf_in \in EdfFiles /\ heap = <<>>
  /\ signal_headers = <<>> /\ signals = <<>>
  /\ new_signals = <<>> /\ new_headers = <<>>
  /\ edf_i = 0 /\ edf_out = <<>> /\ edf_stdout = <<>>

\* except Exception as e: print(f"An error occurred: {e}")
EdfExcept ==
  /\ edf_pc' = "error"
  /\ edf_stdout' = Append(edf_stdout, "An error occurred")
  /\ UNCHANGED <<edf_in, heap, signal_headers, signals, new_signals, new_headers,
                 edf_i, edf_out, mainVars, fmtVars>>

\* EdfReader(input_file) and the two list comprehensions
EdfRead ==
  /\ edf_pc = "start"
  /\ heap' = [k \in 1..Len(edf_in) |->
                [label |-> edf_in[k].label, sample_rate |-> edf_in[k].sample_rate]]
  /\ signal_headers' = [k \in 1..Len(edf_in) |-> k]
  /\ signals' = [k \in 1..Len(edf_in) |-> Samples(k)]
  /\ new_signals' = <<>>
  /\ new_headers' = <<>>
  /\ edf_i' = 1
  /\ edf_stdout' = Append(edf_stdout, "Input file opened successfully.")
  /\ edf_pc' = "loop"
  /\ UNCHANGED <<edf_in, edf_out, mainVars, fmtVars>>

\* the reader raises: no such file, not an EDF file
EdfReadRaises ==
  /\ edf_pc = "start"
  /\ EdfExcept

\* one pass of `for i, signal in enumerate(signals)`
EdfLoopBody ==
  /\ edf_pc = "loop"
  /\ edf_i <= Len(signals)
  /\ LET hdr == heap[signal_headers[edf_i]]
         fs == hdr.sample_rate
     IN IF Contains(upper(hdr.label), <<"E", "M", "G">>)
        THEN /\ ~ButterRaises(lowcut, highcut, fs)
             /\ new_signals' = Append(new_signals, apply_filter(signals[edf_i], fs))
             /\ LET c == HeaderCopy(heap, signal_headers[edf_i])
                IN /\ heap' = [c.heap EXCEPT ![c.ref].label = Filtered_ \o hdr.label]
                   /\ new_headers' = Append(new_headers, c.ref)
        ELSE /\ new_signals' = Append(new_signals, signals[edf_i])
             /\ new_headers' = Append(new_headers, signal_headers[edf_i])
             /\ heap' = heap
  /\ edf_i' = edf_i + 1
  /\ UNCHANGED <<edf_pc, edf_in, signal_headers, signals, edf_out, edf_stdout,
                 mainVars, fmtVars>>

\* apply_filter raises on an EMG channel: butter rejects the frequencies, or
\* filtfilt rejects the signal (too short for the padding)
EdfFilterRaises ==
  /\ edf_pc = "loop"
  /\ edf_i <= Len(signals)
  /\ Contains(upper(heap[signal_headers[edf_i]].label), <<"E", "M", "G">>)
  /\ EdfExcept

\* the loop ends, the reader is closed, EdfWriter(output_file, len(new_signals))
EdfOpenWriter ==
  /\ edf_pc = "loop"
  /\ edf_i > Len(signals)
  /\ edf_stdout' = Append(edf_stdout, "Signals processed. Writing to output file...")
  /\ edf_i' = 1
  /\ edf_out' = <<>>
  /\ edf_pc' = "write"
  /\ UNCHANGED <<edf_in, heap, signal_headers, signals, new_signals, new_headers,
                 mainVars, fmtVars>>

\* writer.setSignalHeader(i, new_headers[i]); writer.writePhysicalSamples(signal)
EdfWriteChannel ==
  /\ edf_pc = "write"
  /\ edf_i <= Len(new_signals)
  /\ edf_out' = Append(edf_out, [header |-> heap[new_headers[edf_i]],
                                 signal |-> new_signals[edf_i]])
  /\ edf_i' = edf_i + 1
  /\ UNCHANGED <<edf_pc, edf_in, heap, signal_headers, signals, new_signals,
                 new_headers, edf_stdout, mainVars, fmtVars>>

\* the writer raises: at its opening or at one of the channels
EdfWriteRaises ==
  /\ edf_pc = "write"
  /\ EdfExcept

EdfWriteDone ==
  /\ edf_pc = "write"
  /\ edf_i > Len(new_signals)
  /\ edf_stdout' = Append(edf_stdout, "Output file written successfully.")
  /\ edf_pc' = "done"
  /\ UNCHANGED <<edf_in, heap, signal_headers, signals, new_signals, new_headers,
                 edf_i, edf_out, mainVars, fmtVars>>

EdfNext ==
  \/ EdfRead
  \/ EdfReadRaises
  \/ EdfLoopBody
  \/ EdfFilterRaises
  \/ EdfOpenWriter
  \/ EdfWriteChannel
  \/ EdfWriteRaises
  \/ EdfWriteDone

\* process_edf applied to every input file within the bounds
EdfStart == MainInit /\ FmtOff /\ EdfInit

EdfSpec == EdfStart /\ [][EdfNext]_vars

\* the label contains "EMG" at some position, letter case ignored
HasEMG(label) ==
  \E k \in 1..(Len(label) - 2) :
    /\ label[k] \in {"E", "e"}
    /\ label[k + 1] \in {"M", "m"}
    /\ label[k + 2] \in {"G", "g"}

\* the output channel the claim expects for the input channel at position k
ExpectedChannel(k) ==
  LET ch == edf_in[k]
  IN IF HasEMG(ch.label)
     THEN [header |-> [label |-> Filtered_ \o ch.label, sample_rate |-> ch.sample_rate],
           signal |-> [filtfilt |-> [order |-> 4,
                                     low |-> <<20, ch.sample_rate>>,
                                     high |-> <<200, ch.sample_rate>>,
                                     btype |-> "band"],
                       data |-> Samples(k)]]
     ELSE [header |-> [label |-> ch.label, sample_rate |-> ch.sample_rate],
           signal |-> Samples(k)]

\* C18: process_edf keeps the number and the order of the channels: output
\* channel k is the band-pass filtered input channel k labelled 'Filtered_' +
\* label when the label contains 'EMG' (case ignored), and input channel k
\* unchanged otherwise; the header dicts read from the input are never
\* modified; a finished run has written as many channels as it read.
C18_ChannelsPreserved ==
  /\ \A k \in 1..Len(new_signals) :
       [header |-> heap[new_headers[k]], signal |-> new_signals[k]] = ExpectedChannel(k)
  /\ \A k \in 1..Len(edf_out) : edf_out[k] = ExpectedChannel(k)
  /\ \A k \in 1..Len(signal_headers) :
       heap[signal_headers[k]] =
         [label |-> edf_in[k].label, sample_rate |-> edf_in[k].sample_rate]
  /\ edf_pc = "write" => Len(new_signals) = Len(edf_in)
  /\ edf_pc = "done" => Len(edf_out) = Len(edf_in)

\* C18 witness: a finished run over two channels, the first an EMG channel
\* in lower case, the second not an EMG channel
C18_Witness ==
  /\ edf_pc = "done"
  /\ Len(edf_in) = 2
  /\ edf_in[1].label = <<"e", "m", "g", "1">>
  /\ edf_in[2].label = <<"E", "E", "G">>
  /\ edf_out[1].header.label = Filtered_ \o <<"e", "m", "g", "1">>
  /\ edf_out[2].header.label = <<"E", "E", "G">>
  /\ heap[signal_headers[1]].label = <<"e", "m", "g", "1">>

====
